---- MODULE Spec2Model ----
(***************************************************************************)
(* RTCStream (src/index.ts): a Duplex stream over a WebSocket or an        *)
(* RTCDataChannel.  The model covers the adapter's write flow control, its *)
(* lifecycle handlers, and the parts of the transport handle and of the    *)
(* Duplex base class that the adapter's code calls or is called by.        *)
(*                                                                         *)
(* Handlers run to completion (single-threaded event loop), so each action *)
(* below is one whole handler; the handlers are operators over a record of *)
(* the state because they call each other (a write callback can start the  *)
(* next write re-entrantly).                                               *)
(***************************************************************************)
EXTENDS Integers, Sequences, FiniteSets, TLC

\* ---- bounds of the model ------------------------------------------------
\* options.bufferSize (src/index.ts:22), scaled down
BufferSize == 2
\* total number of bytes the application submits
MaxBytes == 3
\* longest single chunk the application submits
MaxWriteLen == 3
\* largest bufferedAmount the transport reports on its own account
MaxBufferedAmount == 3
\* number of message events the transport delivers
MaxMessages == 1
\* number of message events the transport delivers in ReadSpec
MaxBurst == 3
\* number of writes the application submits
MaxWrites == 2
\* number of send() calls after which no further handler is started
MaxSends == 4

VARIABLES
    initialReadyState,     \* readyState read by the constructor
    readyState,            \* handle.readyState
    bufferedAmount,        \* handle.bufferedAmount
    sendThrows,            \* the handle's send() currently raises
    listeners,             \* event listeners registered on the handle
    closeEmitted,          \* the transport has emitted its close event
    errorEmitted,          \* the transport has emitted its error event
    errorEvent,            \* history: the error event the transport emitted
    destroyArg,            \* history: the error of the application's destroy call
    pendingWriteBuffer,    \* #pendingWriteBuffer: None or Some(bytes)
    pendingWriteCallback,  \* #pendingWriteCallback: NULL or the write's id
    timers,                \* outstanding setTimeout(_maybeProcessPendingWrite)
    tickQueue,             \* process.nextTick queue
    destroyed,             \* Duplex: destroyed flag
    autoDestroy,           \* Duplex: autoDestroy option of the host library
    writing,               \* Duplex: a _write/_writev is outstanding
    sync,                  \* Duplex: inside a _write/_writev call
    wbuf,                  \* Duplex: chunks buffered behind the outstanding write
    nWrites,               \* number of _writev calls so far (write ids)
    nBytes,                \* number of bytes submitted by the application
    nMessages,             \* number of message events delivered
    delivered,             \* history: message events dispatched before the destroy
    submitted,             \* history: bytes handed to _write/_writev, in order
    sent,                  \* history: payloads passed to send(), in call order
    cbLog,                 \* history: per write id, the errors its callback got
    staleAtCallback,       \* history: a callback was invoked with a pending field still set
    destroyLog,            \* history: errors passed to the _destroy callback
    closeCalls,            \* history: number of handle.close() calls
    pushed,                \* history: payloads pushed to the readable side
    connects,              \* history: number of "connect" emissions
    afterDestroy,          \* history: what happened once destroyed
    handler,               \* history: the handler the last step ran
    ran                    \* history: branches _maybeProcessPendingWrite took in the last step

vars == <<initialReadyState, readyState, bufferedAmount, sendThrows, listeners, closeEmitted,
          errorEmitted, errorEvent, destroyArg, pendingWriteBuffer, pendingWriteCallback, timers,
          tickQueue, destroyed, autoDestroy, writing, sync, wbuf, nWrites,
          nBytes, nMessages, delivered, submitted, sent, cbLog, staleAtCallback, destroyLog, closeCalls,
          pushed, connects, afterDestroy, handler, ran>>

\* ---- values ----------------------------------------------------------------
NULL == 0
None == <<>>
Some(b) == <<b>>

ReadyStates == {"connecting", "open", "closing", "closed"}
AllEvents == {"open", "close", "error", "message"}
NoError == "none"

Min(a, b) == IF a < b THEN a ELSE b
Max(a, b) == IF a > b THEN a ELSE b

\* Buffer.prototype.slice(start, end): negative indices count from the end,
\* both are clamped to [0, length]
SliceIndex(i, len) == IF i < 0 THEN Max(len + i, 0) ELSE Min(i, len)
Slice(b, start, end) ==
    LET st == SliceIndex(start, Len(b))
        en == SliceIndex(end, Len(b))
    IN  IF en <= st THEN <<>> ELSE SubSeq(b, st + 1, en)

\* Buffer.concat(list)
RECURSIVE Concat(_)
Concat(bufs) == IF bufs = <<>> THEN <<>> ELSE Head(bufs) \o Concat(Tail(bufs))

\* the state as one record, for the handlers
Cur ==
    [readyState |-> readyState, bufferedAmount |-> bufferedAmount,
     sendThrows |-> sendThrows, listeners |-> listeners,
     pendingWriteBuffer |-> pendingWriteBuffer,
     pendingWriteCallback |-> pendingWriteCallback, timers |-> timers,
     tickQueue |-> tickQueue, destroyed |-> destroyed,
     autoDestroy |-> autoDestroy, writing |-> writing, sync |-> sync,
     wbuf |-> wbuf, nWrites |-> nWrites, submitted |-> submitted,
     sent |-> sent, cbLog |-> cbLog, staleAtCallback |-> staleAtCallback,
     destroyLog |-> destroyLog, closeCalls |-> closeCalls,
     pushed |-> pushed, connects |-> connects,
     afterDestroy |-> afterDestroy, ran |-> <<>>]

Apply(s, h) ==
    /\ readyState' = s.readyState
    /\ bufferedAmount' = s.bufferedAmount
    /\ sendThrows' = s.sendThrows
    /\ listeners' = s.listeners
    /\ pendingWriteBuffer' = s.pendingWriteBuffer
    /\ pendingWriteCallback' = s.pendingWriteCallback
    /\ timers' = s.timers
    /\ tickQueue' = s.tickQueue
    /\ destroyed' = s.destroyed
    /\ autoDestroy' = s.autoDestroy
    /\ writing' = s.writing
    /\ sync' = s.sync
    /\ wbuf' = s.wbuf
    /\ nWrites' = s.nWrites
    /\ submitted' = s.submitted
    /\ sent' = s.sent
    /\ cbLog' = s.cbLog
    /\ staleAtCallback' = s.staleAtCallback
    /\ destroyLog' = s.destroyLog
    /\ closeCalls' = s.closeCalls
    /\ pushed' = s.pushed
    /\ connects' = s.connects
    /\ afterDestroy' = s.afterDestroy
    /\ ran' = s.ran
    /\ handler' = h
    /\ UNCHANGED initialReadyState

\* ---- the transport handle (WebSocket | RTCDataChannel) -------------------
\* history: the branch _maybeProcessPendingWrite takes, and for which write
Ran(s, branch) ==
    [s EXCEPT !.ran = Append(@, [branch |-> branch, id |-> s.pendingWriteCallback])]

\* handle.send(chunk), when it returns normally: the payload is queued and
\* counted in bufferedAmount
send(s, chunk) ==
    [s EXCEPT !.sent = Append(@, [data |-> chunk, ok |-> TRUE]),
              !.bufferedAmount = @ + Len(chunk),
              !.afterDestroy = IF s.destroyed THEN @ \cup {"send"} ELSE @]

\* handle.send(chunk), when it raises synchronously
sendRaises(s, chunk) ==
    [s EXCEPT !.sent = Append(@, [data |-> chunk, ok |-> FALSE]),
              !.afterDestroy = IF s.destroyed THEN @ \cup {"send"} ELSE @]

\* handle.close(): starts the closing handshake unless already closing/closed
close(s) ==
    [s EXCEPT !.closeCalls = @ + 1,
              !.readyState = IF @ \in {"closing", "closed"} THEN @ ELSE "closing"]

\* ---- Duplex base class and RTCStream ------------------------------------
Task(name, error) == [task |-> name, error |-> error]

\* variant of setTimeout in which the retry is never scheduled
setTimeoutDropped(s) == s

\* setTimeout(this._maybeProcessPendingWrite, this.#bufferTimeout)
setTimeout(s) == [s EXCEPT !.timers = @ + 1]

\* variant of _destroy that leaves the close listener registered
destroyKeepsCloseListener(s, error, by) ==
    LET s1 == [s EXCEPT !.listeners = @ \ {"message", "error", "open"}]
        s2 == close(s1)
    IN  [s2 EXCEPT !.destroyLog = Append(@, [error |-> error, by |-> by])]

\* variant of _destroy that does not close the handle
destroyNoClose(s, error, by) ==
    LET s1 == [s EXCEPT !.listeners = @ \ AllEvents]
    IN  [s1 EXCEPT !.destroyLog = Append(@, [error |-> error, by |-> by])]

\* RTCStream._destroy(error, callback)
_destroy(s, error, by) ==
    LET s1 == [s EXCEPT !.listeners = @ \ AllEvents]
        s2 == close(s1)
    IN  [s2 EXCEPT !.destroyLog = Append(@, [error |-> error, by |-> by])]

\* Duplex.destroy(error): runs _destroy once, drops the buffered writes
destroy(s, error, by) ==
    IF s.destroyed THEN s
    ELSE _destroy([s EXCEPT !.destroyed = TRUE, !.wbuf = <<>>], error, by)

\* Duplex: onwriteError, what the base class does with a failed write
onwriteError(s, error) ==
    IF s.autoDestroy THEN destroy(s, error, "write") ELSE s

RECURSIVE _maybeProcessPendingWrite(_), _finishPendingWrite(_, _),
          _writev(_, _, _), doWrite(_, _), onwrite(_, _, _)

\* Duplex: doWrite, hands chunks to _writev (one chunk: _write -> _writev)
doWrite(s, chunks) ==
    LET id == s.nWrites + 1
        s1 == [s EXCEPT !.nWrites = id, !.writing = TRUE, !.sync = TRUE,
                        !.submitted = @ \o Concat(chunks)]
        s2 == _writev(s1, chunks, id)
    IN  [s2 EXCEPT !.sync = FALSE]

\* Duplex: onwrite, the WriteCallback the adapter is given for write `id`
onwrite(s, id, error) ==
    LET s1 == [s EXCEPT !.cbLog[id] = Append(@, error), !.writing = FALSE,
                        !.staleAtCallback = @ \/ s.pendingWriteCallback # NULL
                                              \/ s.pendingWriteBuffer # None]
    IN  IF error # NoError
        THEN LET s2 == [s1 EXCEPT !.wbuf = <<>>]
             IN  IF s.sync
                 THEN [s2 EXCEPT !.tickQueue = Append(@, Task("onwriteError", error))]
                 ELSE onwriteError(s2, error)
        ELSE IF s1.wbuf # <<>> /\ ~s1.destroyed
             THEN doWrite([s1 EXCEPT !.wbuf = <<>>], s1.wbuf)
             ELSE s1

\* variant of _finishPendingWrite that invokes the callback without clearing
\* the pending fields
finishKeepsPending(s, error) == onwrite(s, s.pendingWriteCallback, error)

\* variant of _finishPendingWrite that clears the buffer but not the callback
finishClearsBufferOnly(s, error) ==
    onwrite([s EXCEPT !.pendingWriteBuffer = None], s.pendingWriteCallback, error)

\* variant of _finishPendingWrite that invokes the callback first and clears
\* the pending fields afterwards
finishInvokesThenClears(s, error) ==
    LET s1 == onwrite(s, s.pendingWriteCallback, error)
    IN  [s1 EXCEPT !.pendingWriteBuffer = None, !.pendingWriteCallback = NULL]

\* RTCStream._finishPendingWrite(error)
_finishPendingWrite(s, error) ==
    LET cb == s.pendingWriteCallback
        s1 == [s EXCEPT !.pendingWriteBuffer = None,
                        !.pendingWriteCallback = NULL]
    IN  onwrite(s1, cb, error)

\* variant of _maybeProcessPendingWrite that, after a partial send, does not
\* replace the pending buffer by the remainder
processKeepsBuffer(s) ==
    IF s.pendingWriteCallback = NULL THEN Ran(s, "idle")
    ELSE IF s.readyState = "closed"
    THEN _finishPendingWrite(Ran(s, "closed"), "not connected")
    ELSE IF s.readyState # "open" THEN Ran(s, "notopen")
    ELSE
    LET bufferSpaceAvailable == BufferSize - s.bufferedAmount
        buffer == s.pendingWriteBuffer[1]
        split == Len(buffer) > bufferSpaceAvailable
        chunk == IF split THEN Slice(buffer, 0, bufferSpaceAvailable) ELSE buffer
        rest  == IF split THEN Some(Slice(buffer, bufferSpaceAvailable, Len(buffer)))
                          ELSE None
    IN  IF bufferSpaceAvailable = 0 THEN setTimeout(Ran(s, "nospace"))
        ELSE IF s.sendThrows
        THEN _finishPendingWrite(sendRaises(Ran(s, "threw"), chunk), "send failed")
        ELSE IF rest # None
        THEN setTimeout(send(Ran(s, "partial"), chunk))
        ELSE _finishPendingWrite(send(Ran(s, "complete"), chunk), NoError)

\* variant of _maybeProcessPendingWrite that schedules a retry when send
\* raises, instead of failing the write
processRetriesOnThrow(s) ==
    IF s.pendingWriteCallback = NULL THEN Ran(s, "idle")
    ELSE IF s.readyState = "closed"
    THEN _finishPendingWrite(Ran(s, "closed"), "not connected")
    ELSE IF s.readyState # "open" THEN Ran(s, "notopen")
    ELSE
    LET bufferSpaceAvailable == BufferSize - s.bufferedAmount
        buffer == s.pendingWriteBuffer[1]
        split == Len(buffer) > bufferSpaceAvailable
        chunk == IF split THEN Slice(buffer, 0, bufferSpaceAvailable) ELSE buffer
        rest  == IF split THEN Some(Slice(buffer, bufferSpaceAvailable, Len(buffer)))
                          ELSE None
    IN  IF bufferSpaceAvailable = 0 THEN setTimeout(Ran(s, "nospace"))
        ELSE IF s.sendThrows
        THEN setTimeout(sendRaises(Ran(s, "threw"), chunk))
        ELSE IF rest # None
        THEN setTimeout([send(Ran(s, "partial"), chunk)
                            EXCEPT !.pendingWriteBuffer = rest])
        ELSE _finishPendingWrite(send(Ran(s, "complete"), chunk), NoError)

\* variant of _maybeProcessPendingWrite without the test for zero headroom
processNoZeroCheck(s) ==
    IF s.pendingWriteCallback = NULL THEN Ran(s, "idle")
    ELSE IF s.readyState = "closed"
    THEN _finishPendingWrite(Ran(s, "closed"), "not connected")
    ELSE IF s.readyState # "open" THEN Ran(s, "notopen")
    ELSE
    LET bufferSpaceAvailable == BufferSize - s.bufferedAmount
        buffer == s.pendingWriteBuffer[1]
        split == Len(buffer) > bufferSpaceAvailable
        chunk == IF split THEN Slice(buffer, 0, bufferSpaceAvailable) ELSE buffer
        rest  == IF split THEN Some(Slice(buffer, bufferSpaceAvailable, Len(buffer)))
                          ELSE None
    IN  IF s.sendThrows
        THEN _finishPendingWrite(sendRaises(Ran(s, "threw"), chunk), "send failed")
        ELSE IF rest # None
        THEN setTimeout([send(Ran(s, "partial"), chunk)
                            EXCEPT !.pendingWriteBuffer = rest])
        ELSE _finishPendingWrite(send(Ran(s, "complete"), chunk), NoError)

\* variant of _maybeProcessPendingWrite that keeps polling while there is no
\* outstanding write
processPollsWhenIdle(s) ==
    IF s.pendingWriteCallback = NULL THEN setTimeout(Ran(s, "idle"))
    ELSE IF s.readyState = "closed"
    THEN _finishPendingWrite(Ran(s, "closed"), "not connected")
    ELSE IF s.readyState # "open" THEN Ran(s, "notopen")
    ELSE
    LET bufferSpaceAvailable == BufferSize - s.bufferedAmount
        buffer == s.pendingWriteBuffer[1]
        split == Len(buffer) > bufferSpaceAvailable
        chunk == IF split THEN Slice(buffer, 0, bufferSpaceAvailable) ELSE buffer
        rest  == IF split THEN Some(Slice(buffer, bufferSpaceAvailable, Len(buffer)))
                          ELSE None
    IN  IF bufferSpaceAvailable = 0 THEN setTimeout(Ran(s, "nospace"))
        ELSE IF s.sendThrows
        THEN _finishPendingWrite(sendRaises(Ran(s, "threw"), chunk), "send failed")
        ELSE IF rest # None
        THEN setTimeout([send(Ran(s, "partial"), chunk)
                            EXCEPT !.pendingWriteBuffer = rest])
        ELSE _finishPendingWrite(send(Ran(s, "complete"), chunk), NoError)

\* RTCStream._maybeProcessPendingWrite()
_maybeProcessPendingWrite(s) ==
    IF s.pendingWriteCallback = NULL THEN Ran(s, "idle")
    ELSE IF s.readyState = "closed"
    THEN _finishPendingWrite(Ran(s, "closed"), "not connected")
    ELSE IF s.readyState # "open" THEN Ran(s, "notopen")
    ELSE
    LET bufferSpaceAvailable == BufferSize - s.bufferedAmount
        buffer == s.pendingWriteBuffer[1]
        split == Len(buffer) > bufferSpaceAvailable
        chunk == IF split THEN Slice(buffer, 0, bufferSpaceAvailable) ELSE buffer
        rest  == IF split THEN Some(Slice(buffer, bufferSpaceAvailable, Len(buffer)))
                          ELSE None
    IN  IF bufferSpaceAvailable = 0 THEN setTimeout(Ran(s, "nospace"))
        ELSE IF s.sendThrows
        THEN _finishPendingWrite(sendRaises(Ran(s, "threw"), chunk), "send failed")
        ELSE IF rest # None
        THEN setTimeout([send(Ran(s, "partial"), chunk)
                            EXCEPT !.pendingWriteBuffer = rest])
        ELSE _finishPendingWrite(send(Ran(s, "complete"), chunk), NoError)

\* RTCStream._writev(chunks, callback) (and _write, which delegates to it)
_writev(s, chunks, callback) ==
    _maybeProcessPendingWrite(
        [s EXCEPT !.pendingWriteBuffer = Some(Concat(chunks)),
                  !.pendingWriteCallback = callback])

\* variant of _onOpen that emits "connect" without flushing the pending write
onOpenNoFlush(s) ==
    [s EXCEPT !.connects = @ + 1,
              !.afterDestroy = IF s.destroyed THEN @ \cup {"connect"} ELSE @]

\* RTCStream._onOpen
_onOpen(s) ==
    _maybeProcessPendingWrite(
        [s EXCEPT !.connects = @ + 1,
                  !.afterDestroy = IF s.destroyed THEN @ \cup {"connect"} ELSE @])

\* variant of _onClose that destroys without failing the pending write
onCloseNoFlush(s) == destroy(s, "connection closed", "close")

\* RTCStream._onClose
_onClose(s) ==
    destroy(_maybeProcessPendingWrite(s), "connection closed", "close")

\* RTCStream._onError(event)
_onError(s, event) ==
    destroy(_maybeProcessPendingWrite(s),
            IF event.hasMessage THEN event.message ELSE "connection refused",
            "error")

\* TextEncoder-style UTF-8 of a sequence of code points below 2048
RECURSIVE Utf8(_)
Utf8(cps) ==
    IF cps = <<>> THEN <<>>
    ELSE LET c == Head(cps)
         IN  (IF c < 128 THEN <<c>> ELSE <<192 + (c \div 64), 128 + (c % 64)>>)
             \o Utf8(Tail(cps))

\* variant of _onMessage that puts the payload in front of the readable buffer
onMessageUnshift(s, data) ==
    [s EXCEPT !.pushed = <<IF data.binary THEN data.bytes ELSE Utf8(data.text)>> \o @,
              !.afterDestroy = IF s.destroyed THEN @ \cup {"push"} ELSE @]

\* RTCStream._onMessage(event)
_onMessage(s, data) ==
    [s EXCEPT !.pushed = Append(@, IF data.binary THEN data.bytes ELSE Utf8(data.text)),
              !.afterDestroy = IF s.destroyed THEN @ \cup {"push"} ELSE @]

\* ---- initial state: right after the constructor returned -----------------
\* variant of SyntheticEvent that only makes up for a missed open event
SyntheticOpenOnly(rs) ==
    IF rs = "open" THEN <<Task("_onOpen", NoError)>> ELSE <<>>

\* the constructor's nextTick call for an event that was missed
SyntheticEvent(rs) ==
    IF rs = "open" THEN <<Task("_onOpen", NoError)>>
    ELSE IF rs = "closed" THEN <<Task("_onClose", NoError)>>
    ELSE <<>>

Init ==
    /\ readyState \in ReadyStates
    /\ initialReadyState = readyState
    /\ bufferedAmount = 0
    /\ sendThrows = FALSE
    /\ listeners = AllEvents
    /\ closeEmitted = (readyState = "closed")
    /\ errorEmitted = FALSE
    /\ errorEvent = [hasMessage |-> FALSE, message |-> ""]
    /\ destroyArg = NoError
    /\ pendingWriteBuffer = None
    /\ pendingWriteCallback = NULL
    /\ timers = 0
    /\ tickQueue = SyntheticEvent(readyState)
    /\ destroyed = FALSE
    /\ autoDestroy \in BOOLEAN
    /\ writing = FALSE
    /\ sync = FALSE
    /\ wbuf = <<>>
    /\ nWrites = 0
    /\ nBytes = 0
    /\ nMessages = 0
    /\ delivered = <<>>
    /\ submitted = <<>>
    /\ sent = <<>>
    /\ cbLog = [id \in 1..MaxWrites |-> <<>>]
    /\ staleAtCallback = FALSE
    /\ destroyLog = <<>>
    /\ closeCalls = 0
    /\ pushed = <<>>
    /\ connects = 0
    /\ afterDestroy = {}
    /\ handler = "constructor"
    /\ ran = <<>>

\* ---- the application, through the Duplex interface -----------------------
\* the bytes of the next chunk: numbered, so that every submitted byte is distinct
NewChunk(len) == [i \in 1..len |-> nBytes + i]

\* a failed write is still waiting for its deferred onwriteError
Errored == \E i \in 1..Len(tickQueue) : tickQueue[i].task = "onwriteError"

\* stream.write(chunk): Writable.write -> writeOrBuffer -> _write/_writev
Write(len) ==
    /\ ~destroyed
    /\ ~(autoDestroy /\ Errored)
    /\ nBytes + len <= MaxBytes
    /\ nWrites + Len(wbuf) < MaxWrites
    /\ nBytes' = nBytes + len
    /\ IF writing
       THEN Apply([Cur EXCEPT !.wbuf = Append(@, NewChunk(len))], "buffered")
       ELSE Apply(doWrite(Cur, <<NewChunk(len)>>), "_writev")
    /\ UNCHANGED <<closeEmitted, errorEmitted, errorEvent, destroyArg, nMessages, delivered>>

\* stream.destroy(error) called by the application
Destroy(error) ==
    /\ ~destroyed
    /\ destroyArg' = error
    /\ Apply(destroy(Cur, error, "app"), "destroy")
    /\ UNCHANGED <<closeEmitted, errorEmitted, errorEvent, nMessages, delivered, nBytes>>

\* ---- the event loop --------------------------------------------------------
\* the next process.nextTick callback
Tick ==
    /\ tickQueue # <<>>
    /\ LET t == Head(tickQueue)
           s == [Cur EXCEPT !.tickQueue = Tail(@)]
       IN  CASE t.task = "_onOpen" -> Apply(_onOpen(s), "nextTick:_onOpen")
             [] t.task = "_onClose" -> Apply(_onClose(s), "nextTick:_onClose")
             [] OTHER -> Apply(onwriteError(s, t.error), "onwriteError")
    /\ UNCHANGED <<closeEmitted, errorEmitted, errorEvent, destroyArg, nMessages, delivered, nBytes>>

\* a retry timer fires
Timer ==
    /\ tickQueue = <<>>
    /\ timers > 0
    /\ Len(sent) < MaxSends
    /\ Apply(_maybeProcessPendingWrite([Cur EXCEPT !.timers = @ - 1]), "timer")
    /\ UNCHANGED <<closeEmitted, errorEmitted, errorEvent, destroyArg, nMessages, delivered, nBytes>>

\* ---- the transport ----------------------------------------------------------
\* the connection is established: readyState becomes open, open event
TransportOpen ==
    /\ tickQueue = <<>>
    /\ readyState = "connecting"
    /\ LET s == [Cur EXCEPT !.readyState = "open"]
       IN  IF "open" \in listeners THEN Apply(_onOpen(s), "_onOpen")
           ELSE Apply(s, "none")
    /\ UNCHANGED <<closeEmitted, errorEmitted, errorEvent, destroyArg, nMessages, delivered, nBytes>>

\* the connection is closed: readyState becomes closed, close event
TransportClose ==
    /\ tickQueue = <<>>
    /\ ~closeEmitted
    /\ closeEmitted' = TRUE
    /\ LET s == [Cur EXCEPT !.readyState = "closed"]
       IN  IF "close" \in listeners THEN Apply(_onClose(s), "_onClose")
           ELSE Apply(s, "none")
    /\ UNCHANGED <<errorEmitted, errorEvent, destroyArg, nMessages, delivered, nBytes>>

\* the states a transport can be in when it dispatches its error event
ErrorStates(rs) ==
    IF rs = "closed" THEN {"closed"}
    ELSE IF rs = "closing" THEN {"closing", "closed"}
    ELSE {rs, "closing", "closed"}

ErrorEvents == {[hasMessage |-> TRUE, message |-> "transport message"],
                [hasMessage |-> FALSE, message |-> ""]}

\* the connection fails: error event, before the close event
TransportError(rs, event) ==
    /\ tickQueue = <<>>
    /\ ~closeEmitted
    /\ ~errorEmitted
    /\ rs \in ErrorStates(readyState)
    /\ errorEmitted' = TRUE
    /\ errorEvent' = event
    /\ LET s == [Cur EXCEPT !.readyState = rs]
       IN  IF "error" \in listeners THEN Apply(_onError(s, event), "_onError")
           ELSE Apply(s, "none")
    /\ UNCHANGED <<closeEmitted, destroyArg, nMessages, delivered, nBytes>>

Messages == {[binary |-> TRUE, bytes |-> <<7>>, text |-> <<>>],
             [binary |-> FALSE, bytes |-> <<>>, text |-> <<65, 233>>]}

\* a message arrives: message event
TransportMessage(data) ==
    /\ tickQueue = <<>>
    /\ readyState \in {"open", "closing"}
    /\ nMessages < MaxMessages
    /\ nMessages' = nMessages + 1
    /\ delivered' = IF destroyed THEN delivered ELSE Append(delivered, data)
    /\ IF "message" \in listeners THEN Apply(_onMessage(Cur, data), "_onMessage")
       ELSE Apply(Cur, "none")
    /\ UNCHANGED <<closeEmitted, errorEmitted, errorEvent, destroyArg, nBytes>>

\* a message arrives, in a run of up to MaxBurst messages
TransportMessages(data) ==
    /\ tickQueue = <<>>
    /\ readyState \in {"open", "closing"}
    /\ nMessages < MaxBurst
    /\ nMessages' = nMessages + 1
    /\ delivered' = IF destroyed THEN delivered ELSE Append(delivered, data)
    /\ IF "message" \in listeners THEN Apply(_onMessage(Cur, data), "_onMessage")
       ELSE Apply(Cur, "none")
    /\ UNCHANGED <<closeEmitted, errorEmitted, errorEvent, destroyArg, nBytes>>

\* the transport's send buffer drains, or grows on the transport's own
\* account (framing, control frames)
BufferedAmountChanges(n) ==
    /\ tickQueue = <<>>
    /\ readyState = "open"
    /\ n # bufferedAmount
    /\ Apply([Cur EXCEPT !.bufferedAmount = n], "none")
    /\ UNCHANGED <<closeEmitted, errorEmitted, errorEvent, destroyArg, nMessages, delivered, nBytes>>

\* the transport starts refusing send()
SendStartsThrowing ==
    /\ tickQueue = <<>>
    /\ readyState = "open"
    /\ ~sendThrows
    /\ Apply([Cur EXCEPT !.sendThrows = TRUE], "none")
    /\ UNCHANGED <<closeEmitted, errorEmitted, errorEvent, destroyArg, nMessages, delivered, nBytes>>

Next ==
    \/ \E len \in 0..MaxWriteLen : Write(len)
    \/ \E error \in {NoError, "app error"} : Destroy(error)
    \/ Tick
    \/ Timer
    \/ TransportOpen
    \/ TransportClose
    \/ \E rs \in ReadyStates, event \in ErrorEvents : TransportError(rs, event)
    \/ \E data \in Messages : TransportMessage(data)
    \/ \E n \in 0..MaxBufferedAmount : BufferedAmountChanges(n)
    \/ SendStartsThrowing

Spec == Init /\ [][Next]_vars

\* the same adapter on a transport that delivers a run of messages, whose
\* send never raises and whose bufferedAmount only grows by the adapter's sends
ReadNext ==
    \/ \E len \in 0..MaxWriteLen : Write(len)
    \/ \E error \in {NoError, "app error"} : Destroy(error)
    \/ Tick
    \/ Timer
    \/ TransportOpen
    \/ TransportClose
    \/ \E rs \in ReadyStates, event \in ErrorEvents : TransportError(rs, event)
    \/ \E data \in Messages : TransportMessages(data)

ReadSpec == Init /\ [][ReadNext]_vars

\* a retry timer fires (no limit on the number of sends)
TimerFires ==
    /\ tickQueue = <<>>
    /\ timers > 0
    /\ Apply(_maybeProcessPendingWrite([Cur EXCEPT !.timers = @ - 1]), "timer")
    /\ UNCHANGED <<closeEmitted, errorEmitted, errorEvent, destroyArg, nMessages, delivered, nBytes>>

\* the transport's send buffer drains
Drain(n) ==
    /\ tickQueue = <<>>
    /\ readyState = "open"
    /\ n < bufferedAmount
    /\ Apply([Cur EXCEPT !.bufferedAmount = n], "none")
    /\ UNCHANGED <<closeEmitted, errorEmitted, errorEvent, destroyArg, nMessages, delivered, nBytes>>

\* the adapter on a transport that is open from the start, stays open, emits
\* no close or error event and keeps draining its send buffer; the
\* application does not destroy the stream; nextTick callbacks and retry
\* timers always get to run
LiveInit == Init /\ readyState = "open"

LiveNext ==
    \/ \E len \in 0..MaxWriteLen : Write(len)
    \/ Tick
    \/ TimerFires
    \/ \E n \in 0..MaxBufferedAmount : Drain(n)
    \/ SendStartsThrowing

LiveSpec ==
    /\ LiveInit
    /\ [][LiveNext]_vars
    /\ WF_vars(Tick)
    /\ WF_vars(TimerFires)
    /\ WF_vars(\E n \in 0..MaxBufferedAmount : Drain(n))

TypeOK ==
    /\ readyState \in ReadyStates
    /\ (pendingWriteCallback = NULL) \/ (pendingWriteCallback \in 1..MaxWrites)
    /\ timers \in Nat
    /\ errorEvent \in ErrorEvents
    /\ destroyArg \in {NoError, "app error"}

\* ---- properties -----------------------------------------------------------
\* all payloads passed to send(), concatenated in call order
SentData == Concat([i \in 1..Len(sent) |-> sent[i].data])

\* the bytes of the outstanding write that are still to be sent
PendingBytes == IF pendingWriteBuffer = None THEN <<>> ELSE pendingWriteBuffer[1]

\* no write callback has received an error and no send() has raised
AllWritesOk ==
    /\ \A id \in 1..MaxWrites : \A i \in 1..Len(cbLog[id]) : cbLog[id][i] = NoError
    /\ \A i \in 1..Len(sent) : sent[i].ok

\* the write ids whose callback has been invoked
Completed == {id \in 1..MaxWrites : cbLog[id] # <<>>}

\* C1: as long as no write has failed, the payloads passed to send, in call
\* order, followed by the unsent remainder of the outstanding write, are
\* exactly the bytes handed to _write/_writev in submission order; so once
\* every write has completed successfully the sent bytes equal the submitted
\* bytes: nothing lost, duplicated or reordered, however the writes were split.
C1_SentEqualsSubmitted ==
    AllWritesOk => SentData \o PendingBytes = submitted

\* two writes completed successfully, in three non-empty sends
C1_Witness ==
    /\ AllWritesOk
    /\ Completed = {1, 2}
    /\ pendingWriteCallback = NULL
    /\ Len(sent) = 3
    /\ \A i \in 1..3 : sent[i].data # <<>>
    /\ SentData = <<1, 2, 3>>

\* C2: a write's callback is never invoked twice; and in the step in which
\* _maybeProcessPendingWrite sends the last chunk, catches a raising send or
\* sees the transport closed, the callback of that write has been invoked
\* exactly once, while in the steps in which it waits or sends a part the
\* callback of that write has not been invoked.
C2_CallbackOnce ==
    /\ \A id \in 1..MaxWrites : Len(cbLog[id]) <= 1
    /\ \A i \in 1..Len(ran) :
          /\ ran[i].branch \in {"complete", "threw", "closed"}
                => Len(cbLog[ran[i].id]) = 1
          /\ ran[i].branch \in {"notopen", "nospace", "partial"}
                => cbLog[ran[i].id] = <<>>

\* a write was sent in parts across a retry timer, completed from the timer,
\* and the adapter was destroyed afterwards with another timer still to fire
C2_Witness ==
    /\ cbLog[1] = <<NoError>>
    /\ Len(sent) >= 2
    /\ destroyed
    /\ handler = "timer"
    /\ ran = <<[branch |-> "idle", id |-> NULL]>>

\* the synthetic close event of the constructor is still queued
SyntheticClosePending ==
    \E i \in 1..Len(tickQueue) : tickQueue[i].task = "_onClose"

\* C3: once a close or error event has destroyed the adapter, no accepted
\* write is left outstanding: the callback of every write handed to
\* _write/_writev has been invoked and the pending fields are clear.
C3_NoWriteLeftOutstanding ==
    (destroyLog # <<>> /\ destroyLog[1].by \in {"close", "error"})
        => /\ pendingWriteCallback = NULL
           /\ \A id \in 1..nWrites : cbLog[id] # <<>>

\* C4: _destroy runs at most once and calls handle.close() exactly once when
\* it runs; after it no listener is registered; and once the transport has
\* emitted an error or a close event (for a transport found closed by the
\* constructor: once the synthetic close has run) it has run exactly once,
\* whatever else was emitted or called.
C4_DestroyOnce ==
    /\ Len(destroyLog) <= 1
    /\ closeCalls = Len(destroyLog)
    /\ destroyed <=> (Len(destroyLog) = 1)
    /\ destroyed => (listeners = {})
    /\ (errorEmitted \/ (closeEmitted /\ ~SyntheticClosePending))
          => (destroyed /\ Len(destroyLog) = 1 /\ closeCalls = 1)

\* the transport emitted an error event and then a close event
C4_Witness ==
    /\ errorEmitted
    /\ closeEmitted
    /\ Len(destroyLog) = 1
    /\ destroyLog[1].by = "error"
    /\ closeCalls = 1
    /\ listeners = {}

\* the first n bytes of a buffer
Prefix(b, n) == [i \in 1..Min(Max(n, 0), Len(b)) |-> b[i]]

\* C5: while the transport is connecting nothing has been sent and no retry
\* timer is scheduled; a write submitted while connecting leaves
\* _maybeProcessPendingWrite without a send or a timer and stays queued; and
\* the open event sends the queued buffer, or the prefix that fits the
\* headroom, keeping the rest pending.
C5_ConnectingWriteWaits ==
    /\ [](readyState = "connecting" => (sent = <<>> /\ timers = 0))
    /\ [][(readyState = "connecting" /\ handler' = "_writev")
            => /\ ran' = <<[branch |-> "notopen", id |-> nWrites']>>
               /\ sent' = sent
               /\ timers' = timers
               /\ pendingWriteCallback' = nWrites'
               /\ pendingWriteBuffer' = Some(NewChunk(nBytes' - nBytes))
               /\ cbLog' = cbLog]_vars
    /\ [][(/\ readyState = "connecting"
           /\ readyState' = "open"
           /\ pendingWriteCallback # NULL
           /\ ~sendThrows
           /\ BufferSize - bufferedAmount > 0)
            => /\ handler' = "_onOpen"
               /\ ran' # <<>>
               /\ ran'[1].id = pendingWriteCallback
               /\ sent' # <<>>
               /\ sent'[1].data = Prefix(PendingBytes, BufferSize - bufferedAmount)
               /\ \/ /\ pendingWriteCallback' = pendingWriteCallback
                     /\ sent'[1].data \o PendingBytes' = PendingBytes
                  \/ /\ sent'[1].data = PendingBytes
                     /\ cbLog'[pendingWriteCallback] = <<NoError>>]_vars

\* a three-byte write queued while connecting; the open event sent the two
\* bytes that fit and kept the third
C5_Witness ==
    /\ handler = "_onOpen"
    /\ connects = 1
    /\ sent = <<[data |-> <<1, 2>>, ok |-> TRUE]>>
    /\ pendingWriteBuffer = Some(<<3>>)
    /\ pendingWriteCallback = 1

\* the bytes after the first n bytes of a buffer
Suffix(b, n) == [i \in 1..(Len(b) - Min(Max(n, 0), Len(b))) |-> b[i + Min(Max(n, 0), Len(b))]]

\* the retry timers a step leaves, given one more was scheduled
TimersPlus(n) == timers + n - (IF handler' = "timer" THEN 1 ELSE 0)

\* C6: when _maybeProcessPendingWrite runs on an outstanding write with the
\* transport open and send not raising: if the headroom is smaller than the
\* buffer it sends exactly the headroom-sized prefix, keeps the suffix pending
\* with the same callback, schedules one retry and does not invoke the
\* callback; otherwise it sends the whole buffer in one send and invokes the
\* callback with success.  (An empty buffer at zero headroom is taken as the
\* waiting case.)
C6_HeadroomPrefix ==
    [][(/\ pendingWriteCallback # NULL
        /\ ran' # <<>>
        /\ ran'[1].id = pendingWriteCallback
        /\ ran'[1].branch \in {"nospace", "partial", "complete"})
        => LET b == PendingBytes
               h == BufferSize - bufferedAmount
           IN  IF h < Len(b) \/ h = 0
               THEN /\ SentData' = SentData \o Prefix(b, h)
                    /\ Len(sent') <= Len(sent) + 1
                    /\ pendingWriteBuffer' = Some(Suffix(b, h))
                    /\ pendingWriteCallback' = pendingWriteCallback
                    /\ timers' = TimersPlus(1)
                    /\ cbLog' = cbLog
               ELSE /\ Len(sent') > Len(sent)
                    /\ sent'[Len(sent) + 1] = [data |-> b, ok |-> TRUE]
                    /\ cbLog'[pendingWriteCallback] = <<NoError>>]_vars

\* the handlers that start with _maybeProcessPendingWrite on the state as it is
AdvanceHandlers ==
    {"timer", "_onClose", "_onError", "nextTick:_onClose", "nextTick:_onOpen"}

\* C7: when _maybeProcessPendingWrite runs on an outstanding write and the
\* transport reports closed, the callback of that write is invoked exactly
\* once, with "not connected", the pending fields are cleared, send is not
\* called and no retry timer is scheduled; the same holds for a write that
\* is submitted when the transport is closed.
C7_ClosedFailsWrite ==
    /\ [][(/\ pendingWriteCallback # NULL
           /\ handler' \in AdvanceHandlers
           /\ readyState' = "closed")
            => /\ cbLog'[pendingWriteCallback] = <<"not connected">>
               /\ pendingWriteCallback' = NULL
               /\ pendingWriteBuffer' = None
               /\ sent' = sent
               /\ timers' = TimersPlus(0)]_vars
    /\ [][(handler' = "_writev" /\ readyState' = "closed")
            => /\ cbLog'[nWrites'] = <<"not connected">>
               /\ pendingWriteCallback' = NULL
               /\ pendingWriteBuffer' = None
               /\ sent' = sent
               /\ timers' = timers]_vars
    /\ [](\A id \in 1..MaxWrites :
            \A i \in 1..Len(cbLog[id]) :
                cbLog[id][i] = "not connected" => Len(cbLog[id]) = 1)

\* a write was sent in part, then the close event failed it
C7_Witness ==
    /\ handler = "_onClose"
    /\ ran = <<[branch |-> "closed", id |-> 1]>>
    /\ cbLog[1] = <<"not connected">>
    /\ Len(sent) = 1
    /\ timers = 1

\* C8: once the adapter is destroyed, send is never called and nothing is
\* pushed to the readable side.
C8_NothingAfterDestroy ==
    afterDestroy \cap {"send", "push"} = {}

\* a retry timer fired after the destroy, with its write still pending and
\* the synthetic open having run after the destroy as well
C8_Witness ==
    /\ destroyed
    /\ handler = "timer"
    /\ pendingWriteCallback # NULL
    /\ PendingBytes # <<>>
    /\ "connect" \in afterDestroy

\* the values in a sequence
Range(f) == {f[i] : i \in 1..Len(f)}

\* C9: when send raises, the callback of the outstanding write is invoked
\* exactly once with that error, both pending fields are cleared and no retry
\* timer is scheduled; the adapter does not call destroy on that account (a
\* destroy in that step comes from the error or close event being handled, or
\* from the base class reacting to the failed write when it auto-destroys);
\* and every byte passed to send comes from the pending buffer or from a write
\* handed in during that step, so the cleared remainder is never sent.
C9_SendRaises ==
    /\ [][(ran' # <<>> /\ ran'[Len(ran')].branch = "threw")
            => LET id == ran'[Len(ran')].id
               IN  /\ cbLog'[id] = <<"send failed">>
                   /\ pendingWriteBuffer' = None
                   /\ pendingWriteCallback' = NULL
                   /\ timers' = TimersPlus(0)
                   /\ handler' # "_onError"
                        => /\ ~autoDestroy
                              => (destroyLog' = destroyLog /\ closeCalls' = closeCalls
                                  /\ destroyed' = destroyed)
                           /\ \A i \in (Len(destroyLog) + 1)..Len(destroyLog') :
                                 destroyLog'[i] = [error |-> "send failed", by |-> "write"]]_vars
    /\ [][\A i \in (Len(sent) + 1)..Len(sent') :
             Range(sent'[i].data) \subseteq
                 Range(PendingBytes) \cup (Range(submitted') \ Range(submitted))]_vars

\* a write was sent in part, then send raised on the retry; the base class
\* does not auto-destroy, so the adapter stays up
C9_Witness ==
    /\ handler = "timer"
    /\ ran = <<[branch |-> "threw", id |-> 1]>>
    /\ cbLog[1] = <<"send failed">>
    /\ Len(sent) = 2
    /\ sent[1].ok
    /\ ~destroyed
    /\ pendingWriteCallback = NULL

\* C10: for a transport found closed by the constructor: the constructor
\* itself emits nothing and destroys nothing, it only queues the synthetic
\* close; send is never called and "connect" is never emitted; and once the
\* synthetic close has run the adapter is destroyed, with "connection closed"
\* unless the application had destroyed it before that tick.
C10_ClosedAtConstruction ==
    (initialReadyState = "closed")
        => /\ handler = "constructor"
                => (~destroyed /\ destroyLog = <<>> /\ connects = 0
                    /\ closeCalls = 0 /\ SyntheticClosePending)
           /\ sent = <<>>
           /\ connects = 0
           /\ ~SyntheticClosePending
                => /\ destroyed
                   /\ Len(destroyLog) = 1
                   /\ \/ destroyLog[1] = [error |-> "connection closed", by |-> "close"]
                      \/ destroyLog[1].by = "app"

\* the synthetic close destroyed the adapter, after a write had been tried
\* (and refused) before the tick
C10_Witness ==
    /\ initialReadyState = "closed"
    /\ handler = "nextTick:_onClose"
    /\ destroyLog = <<[error |-> "connection closed", by |-> "close"]>>
    /\ cbLog[1] = <<"not connected">>
    /\ sent = <<>>

\* the bytes a message payload stands for: binary as is, text in UTF-8
\* ("A" is 65, "e acute" U+00E9 is 195 169)
PayloadBytes(data) ==
    IF data.binary THEN data.bytes
    ELSE IF data.text = <<65, 233>> THEN <<65, 195, 169>>
    ELSE <<>>

\* C11: the payloads pushed to the readable side are, one for one and in
\* order, the payloads of the message events dispatched while the adapter was
\* not destroyed (text as its UTF-8 bytes): after every message event the
\* push has already happened, nothing is dropped, merged, repeated or moved.
C11_PushedInDeliveryOrder ==
    pushed = [i \in 1..Len(delivered) |-> PayloadBytes(delivered[i])]

\* three messages of both kinds were pushed, then the adapter was destroyed
\* and a later message was not pushed
C11_Witness ==
    /\ Len(pushed) = 2
    /\ pushed[1] = <<65, 195, 169>>
    /\ pushed[2] = <<7>>
    /\ destroyed
    /\ nMessages = 3

\* C12: between handlers the pending buffer and the pending callback are
\* both set or both absent; and a partial send leaves the callback attached
\* and replaces the buffer by what remains after the chunk it sent.
C12_PendingPair ==
    /\ []((pendingWriteBuffer = None) <=> (pendingWriteCallback = NULL))
    /\ [][(/\ pendingWriteCallback # NULL
           /\ ran' # <<>>
           /\ ran'[1] = [branch |-> "partial", id |-> pendingWriteCallback])
            => /\ pendingWriteCallback' = pendingWriteCallback
               /\ pendingWriteBuffer' # None
               /\ Len(sent') = Len(sent) + 1
               /\ sent'[Len(sent')].data \o PendingBytes' = PendingBytes]_vars

\* a retry timer made the second partial send of a three-byte write
C12_Witness ==
    /\ handler = "timer"
    /\ ran = <<[branch |-> "partial", id |-> 1]>>
    /\ pendingWriteCallback = 1
    /\ pendingWriteBuffer = Some(<<3>>)
    /\ Len(sent) = 2

\* the writes handed to _write/_writev whose callback has not been invoked
Outstanding == {id \in 1..nWrites : cbLog[id] = <<>>}

\* C13: no callback is ever invoked with a pending field still set; at most
\* one write is outstanding and it is the one in the pending fields; and when
\* the callback of a finished write starts the next write re-entrantly, that
\* write is the outstanding one afterwards exactly as its own run of
\* _maybeProcessPendingWrite left it: still pending with its unsent bytes, or
\* completed once, and with no byte of it sent twice.
C13_ClearThenInvoke ==
    /\ [](~staleAtCallback)
    /\ [](Outstanding = IF pendingWriteCallback = NULL THEN {}
                        ELSE {pendingWriteCallback})
    /\ [][(Len(ran') >= 2)
            => LET first == ran'[1]
                   second == ran'[2]
               IN  /\ Len(ran') = 2
                   /\ first.branch = "complete"
                   /\ cbLog'[first.id] = <<NoError>>
                   /\ second.id = nWrites'
                   /\ second.id # first.id
                   /\ IF second.branch = "complete"
                      THEN /\ cbLog'[second.id] = <<NoError>>
                           /\ pendingWriteCallback' = NULL
                      ELSE /\ cbLog'[second.id] = <<>>
                           /\ pendingWriteCallback' = second.id
                           /\ second.branch \in {"partial", "nospace"}
                   /\ AllWritesOk => SentData' \o PendingBytes' = submitted']_vars

\* a timer completed the first write, whose callback started the buffered
\* second write, which was sent in part and is now the outstanding write
C13_Witness ==
    /\ handler = "timer"
    /\ ran = <<[branch |-> "complete", id |-> 1], [branch |-> "partial", id |-> 2]>>
    /\ cbLog[1] = <<NoError>>
    /\ cbLog[2] = <<>>
    /\ pendingWriteCallback = 2
    /\ PendingBytes # <<>>

\* C14 as stated: on a transport that stays open and drains, with the
\* adapter not destroyed and the retry timers firing, every write handed to
\* _write/_writev eventually has its callback invoked with success.
C14_EveryWriteSucceeds ==
    \A id \in 1..MaxWrites :
        (nWrites >= id) ~> (cbLog[id] = <<NoError>> \/ destroyed)

\* C14, amended: under the same conditions every write handed to
\* _write/_writev eventually has its callback invoked; no callback gets an
\* error unless send has raised; and as long as no write has failed, the
\* bytes sent, followed by those still pending, are the bytes submitted, so a
\* write completed with success has had all its bytes sent.
C14_EveryWriteCompletes ==
    /\ \A id \in 1..MaxWrites : (nWrites >= id) ~> (cbLog[id] # <<>>)
    /\ [](~sendThrows => AllWritesOk)
    /\ [](AllWritesOk => SentData \o PendingBytes = submitted)

\* a three-byte write waited for headroom and was completed by a retry timer
\* in its second send, send never raising
C14_Witness ==
    /\ handler = "timer"
    /\ ran = <<[branch |-> "complete", id |-> 1]>>
    /\ cbLog[1] = <<NoError>>
    /\ sent = <<[data |-> <<1, 2>>, ok |-> TRUE], [data |-> <<3>>, ok |-> TRUE]>>
    /\ ~sendThrows

\* C15: when _maybeProcessPendingWrite runs on an outstanding write with the
\* transport open and a headroom of exactly zero, it takes the waiting branch
\* and nothing else: send is not called, the pending buffer and callback stay
\* as they are, no callback is invoked and exactly one retry timer is added.
\* This holds for a write that was already pending (timer, open event) and for
\* a write handed to _writev in that step.
C15_ZeroHeadroomWaits ==
    /\ [][(/\ pendingWriteCallback # NULL
           /\ ran' # <<>>
           /\ ran'[1].branch = "nospace")
            => /\ ran' = <<[branch |-> "nospace", id |-> pendingWriteCallback]>>
               /\ bufferedAmount = BufferSize
               /\ bufferedAmount' = bufferedAmount
               /\ sent' = sent
               /\ pendingWriteBuffer' = pendingWriteBuffer
               /\ pendingWriteCallback' = pendingWriteCallback
               /\ cbLog' = cbLog
               /\ timers' = TimersPlus(1)]_vars
    /\ [][(/\ pendingWriteCallback # NULL
           /\ handler' \in {"timer", "_onOpen", "nextTick:_onOpen"}
           /\ readyState' = "open"
           /\ bufferedAmount = BufferSize)
            => ran' = <<[branch |-> "nospace", id |-> pendingWriteCallback]>>]_vars
    /\ [][(/\ handler' = "_writev"
           /\ readyState = "open"
           /\ bufferedAmount = BufferSize)
            => /\ ran' = <<[branch |-> "nospace", id |-> nWrites']>>
               /\ sent' = sent
               /\ pendingWriteCallback' = nWrites'
               /\ pendingWriteBuffer' # None
               /\ cbLog'[nWrites'] = <<>>
               /\ timers' = timers + 1]_vars

\* a retry timer found the transport open and full after part of the write
\* had been sent, and rescheduled itself
C15_Witness ==
    /\ handler = "timer"
    /\ ran = <<[branch |-> "nospace", id |-> 1]>>
    /\ readyState = "open"
    /\ bufferedAmount = BufferSize
    /\ sent # <<>>
    /\ pendingWriteBuffer # None
    /\ cbLog[1] = <<>>
    /\ timers = 1

\* C16: when _maybeProcessPendingWrite runs with no outstanding write (from
\* an open, close or error handler, synthetic or not, or from a retry timer
\* whose write has already completed) it returns at once: send is not
\* called, no retry timer is scheduled, no callback is invoked and both
\* pending fields stay absent.
C16_IdleAdvanceIsNoOp ==
    /\ [][(/\ pendingWriteCallback = NULL
           /\ handler' \in AdvanceHandlers \cup {"_onOpen"})
            => ran' = <<[branch |-> "idle", id |-> NULL]>>]_vars
    /\ [][(ran' # <<>> /\ ran'[1].branch = "idle")
            => /\ Len(ran') = 1
               /\ pendingWriteCallback = NULL
               /\ pendingWriteBuffer = None
               /\ sent' = sent
               /\ bufferedAmount' = bufferedAmount
               /\ timers' = TimersPlus(0)
               /\ cbLog' = cbLog
               /\ pendingWriteCallback' = NULL
               /\ pendingWriteBuffer' = None]_vars

\* a retry timer fired after its write had been completed by another handler
C16_Witness ==
    /\ handler = "timer"
    /\ ran = <<[branch |-> "idle", id |-> NULL]>>
    /\ cbLog[1] = <<NoError>>
    /\ nWrites = 1
    /\ sent # <<>>

\* C17: the destroy callback receives the error of what set the destroy off:
\* "connection closed" when a close event is handled, the event's message
\* when an error event with a message is handled, "connection refused" when
\* an error event without a message is handled, and the argument of the
\* application's destroy call (none if it gave none); and no write callback
\* ever receives one of the connection-level errors.
C17_DestroyGetsTriggeringError ==
    /\ [][(Len(destroyLog') > Len(destroyLog))
            => destroyLog'[Len(destroyLog) + 1].error =
                 CASE handler' \in {"_onClose", "nextTick:_onClose"} -> "connection closed"
                   [] handler' = "_onError" ->
                        IF errorEvent'.hasMessage THEN errorEvent'.message
                        ELSE "connection refused"
                   [] handler' = "destroy" -> destroyArg'
                   [] OTHER -> destroyLog'[Len(destroyLog) + 1].error]_vars
    /\ [](\A id \in 1..MaxWrites : \A i \in 1..Len(cbLog[id]) :
            cbLog[id][i] \notin {"connection closed", "transport message",
                                 "connection refused"})

\* C18: every chunk passed to send is no longer than bufferSize minus the
\* bufferedAmount read in that step, send is never called while bufferedAmount
\* is at or above bufferSize, and so a send of the adapter never leaves
\* bufferedAmount above bufferSize.
C18_ChunkWithinHeadroom ==
    [][(Len(sent') > Len(sent))
        => /\ bufferedAmount < BufferSize
           /\ Len(sent'[Len(sent) + 1].data) <= BufferSize - bufferedAmount
           /\ bufferedAmount' <= BufferSize]_vars

\* C19: at most one retry timer of _maybeProcessPendingWrite is outstanding at
\* any time, whatever the interleaving of writes, the synthetic open, transport
\* events and timer firings (so that timers advance a write at most once per
\* bufferTimeout).
C19_AtMostOneTimer ==
    timers <= 1

\* C20: "connect" is emitted at most once, not before the constructor has
\* returned, and never once the adapter is destroyed.
C20_ConnectOnceWhileAlive ==
    /\ connects <= 1
    /\ handler = "constructor" => connects = 0
    /\ "connect" \notin afterDestroy

====
